---- MODULE Spec2Model ----
(***************************************************************************)
(* CHIP-8 interpreter core (leprekon91/chip8-rust, src/cpu.rs).            *)
(*                                                                         *)
(* The engine is the record `cpu`, with the fields of struct Cpu.  Every   *)
(* instruction handler op_xxxx is an operator from the engine record (and  *)
(* its decoded operands) to a Result: the engine after the handler, the    *)
(* PcInstructions value it returns, and whether it panicked on the way.    *)
(* `cycle` composes fetch, exec_opcode, the program-counter update and the *)
(* timer update exactly as Cpu::cycle does.                                *)
(***************************************************************************)
EXTENDS Integers, Sequences, FiniteSets, TLC

VARIABLES
    cpu,       \* the Cpu struct
    status,    \* "ok", or "panic" once a call has panicked (process is dead)
    output,    \* the OutputState returned by the last cycle call
    loaded,    \* load_program has been called
    ncycles,   \* number of cycle calls made so far
    rom,       \* input: the program the caller loads
    pads,      \* input: the keypad snapshots the caller may supply
    build,     \* input: "debug" (overflow checks on) or "release" (off)
    rng,       \* input: the bytes the random generator may return
    budget,    \* input: the number of cycle calls the caller makes
    opcode1,   \* opcode fetched by the last call, NoOpcode if it fetched none
    opcode2,   \* opcode fetched by the call before the last one
    prev,      \* the Cpu struct before the last call
    prev2,     \* the Cpu struct before the call before the last one
    screen,    \* the Display struct of display.rs, NoScreen if none was made
    drawn,     \* the last call made on the Display struct, with its result
    calls      \* the calls made on the Cpu struct so far, in order

vars == <<cpu, status, output, loaded, ncycles, rom, pads, build, rng, budget,
          opcode1, opcode2, prev, prev2, screen, drawn, calls>>

(***************************************************************************)
(* Constants of cpu.rs                                                     *)
(***************************************************************************)
MEMORY_SIZE == 4096
DISPLAY_HEIGHT == 32
DISPLAY_WIDTH == 64
REGISTER_COUNT == 16
STACK_SIZE == 16
OPCODE_SIZE == 2
PROGRAM_START == 512
KEYPAD_SIZE == 16

(***************************************************************************)
(* Bounds of the model                                                     *)
(***************************************************************************)
MaxCycles == 18
ShortRun == 4
MidRun == 9
\* cycle calls a caller makes on an engine it has not loaded a program into
MaxUnloaded == 1

NoOpcode == 0 - 1
NoKey == 0 - 1

\* usize::MAX, written as its two's-complement reading (TLC integers are 32-bit)
USIZE_MAX == 0 - 1

Byte == 0..255
Reg == 0..(REGISTER_COUNT - 1)

(***************************************************************************)
(* u8 / u16 bit arithmetic                                                 *)
(***************************************************************************)
Bit(v, i) == (v \div (2^i)) % 2

BitAnd(a, b) ==
    LET f[i \in 0..16] ==
            IF i = 16 THEN 0 ELSE (Bit(a, i) * Bit(b, i)) * (2^i) + f[i + 1]
    IN  f[0]

BitOr(a, b) ==
    LET f[i \in 0..16] ==
            IF i = 16 THEN 0
            ELSE (IF Bit(a, i) + Bit(b, i) > 0 THEN 2^i ELSE 0) + f[i + 1]
    IN  f[0]

BitXor(a, b) ==
    LET f[i \in 0..16] ==
            IF i = 16 THEN 0
            ELSE (((Bit(a, i) + Bit(b, i)) % 2) * (2^i)) + f[i + 1]
    IN  f[0]

\* u8::wrapping_add, u8::wrapping_sub
wrapping_add(a, b) == (a + b) % 256
wrapping_sub(a, b) == (a - b + 256) % 256

\* u8 >> k and u8 << k (bits shifted out of the 8-bit value are lost)
Shr8(a, k) == a \div (2^k)
Shl8(a, k) == (a * (2^k)) % 256

(***************************************************************************)
(* font::FONT_SET: 16 glyphs of 5 bytes                                    *)
(***************************************************************************)
FONT_SET ==
    << 240, 144, 144, 144, 240,    32,  96,  32,  32, 112,
       240,  16, 240, 128, 240,   240,  16, 240,  16, 240,
       144, 144, 240,  16,  16,   240, 128, 240,  16, 240,
       240, 128, 240, 144, 240,   240,  16,  32,  64,  64,
       240, 144, 240, 144, 240,   240, 144, 240,  16, 240,
       240, 144, 240, 144, 144,   224, 144, 224, 144, 224,
       240, 128, 128, 128, 240,   224, 144, 144, 144, 224,
       240, 128, 240, 128, 240,   240, 128, 240, 128, 128 >>

(***************************************************************************)
(* enum PcInstructions                                                     *)
(***************************************************************************)
PcNext == [tag |-> "Next", addr |-> 0]
PcSkip == [tag |-> "Skip", addr |-> 0]
PcJump(a) == [tag |-> "Jump", addr |-> a]

skip_if(condition) == IF condition THEN PcSkip ELSE PcNext

\* A handler's outcome: the engine it leaves, the value it returns, and
\* whether it panicked (then `pc` is meaningless).
Done(c, pci) == [cpu |-> c, pc |-> pci, panic |-> FALSE]
Panicked(c) == [cpu |-> c, pc |-> PcNext, panic |-> TRUE]

(***************************************************************************)
(* Cpu::new                                                                *)
(***************************************************************************)
NoKeys == [i \in 0..(KEYPAD_SIZE - 1) |-> FALSE]

new ==
    [ memory |-> [a \in 0..(MEMORY_SIZE - 1) |->
                     IF a < Len(FONT_SET) THEN FONT_SET[a + 1] ELSE 0],
      v_registers |-> [i \in Reg |-> 0],
      index_register |-> 0,
      program_counter |-> PROGRAM_START,
      stack |-> [i \in 0..(STACK_SIZE - 1) |-> 0],
      stack_pointer |-> 0,
      delay_timer |-> 0,
      sound_timer |-> 0,
      keypad |-> NoKeys,
      keypad_waiting |-> FALSE,
      keypad_register |-> 0,
      display |-> [y \in 0..(DISPLAY_HEIGHT - 1) |->
                     [x \in 0..(DISPLAY_WIDTH - 1) |-> 0]],
      display_changed |-> FALSE ]

(***************************************************************************)
(* A loader that stops at the last address (break) instead of panicking    *)
(***************************************************************************)
load_program_truncating(c, program) ==
    LET fit == MEMORY_SIZE - PROGRAM_START
        stored == IF Len(program) > fit THEN fit ELSE Len(program)
        mem == [a \in 0..(MEMORY_SIZE - 1) |->
                   IF a >= PROGRAM_START /\ a - PROGRAM_START < stored
                   THEN program[a - PROGRAM_START + 1]
                   ELSE c.memory[a]]
    IN  [cpu |-> [c EXCEPT !.memory = mem], panic |-> FALSE]

(***************************************************************************)
(* Cpu::load_program: bytes are stored one by one; the loop panics at the  *)
(* first index that does not fit, after the earlier bytes were stored.     *)
(***************************************************************************)
load_program(c, program) ==
    LET fit == MEMORY_SIZE - PROGRAM_START
        stored == IF Len(program) > fit THEN fit ELSE Len(program)
        mem == [a \in 0..(MEMORY_SIZE - 1) |->
                   IF a >= PROGRAM_START /\ a - PROGRAM_START < stored
                   THEN program[a - PROGRAM_START + 1]
                   ELSE c.memory[a]]
    IN  [cpu |-> [c EXCEPT !.memory = mem], panic |-> Len(program) > fit]

(***************************************************************************)
(* Cpu::fetch_opcode (callers check the two indices first: an index past   *)
(* the array panics)                                                       *)
(***************************************************************************)
fetch_panics(c) == c.program_counter + 1 >= MEMORY_SIZE

fetch_opcode(c) ==
    LET first_byte == c.memory[c.program_counter]
        second_byte == c.memory[c.program_counter + 1]
    IN  first_byte * 256 + second_byte

(***************************************************************************)
(* Instruction handlers                                                    *)
(***************************************************************************)
\* CLS
op_00e0(c) ==
    Done([c EXCEPT !.display = [y \in 0..(DISPLAY_HEIGHT - 1) |->
                                   [x \in 0..(DISPLAY_WIDTH - 1) |-> 0]],
                   !.display_changed = TRUE],
         PcNext)

\* RET: `stack_pointer -= 1` panics on an empty stack when overflow checks
\* are on; when they are off it wraps to usize::MAX and the index panics.
op_00ee(c, bld) ==
    IF c.stack_pointer = 0
    THEN IF bld = "debug"
         THEN Panicked(c)
         ELSE Panicked([c EXCEPT !.stack_pointer = USIZE_MAX])
    ELSE LET sp == c.stack_pointer - 1
         IN  IF sp >= STACK_SIZE
             THEN Panicked([c EXCEPT !.stack_pointer = sp])
             ELSE Done([c EXCEPT !.stack_pointer = sp], PcJump(c.stack[sp]))

\* JP addr
op_1nnn(c, nnn) == Done(c, PcJump(nnn))

\* CALL that pushes the address of the call itself instead of the next one
op_2nnn_push_pc(c, nnn) ==
    IF c.stack_pointer >= STACK_SIZE
    THEN Panicked(c)
    ELSE Done([c EXCEPT !.stack[c.stack_pointer] = c.program_counter,
                        !.stack_pointer = c.stack_pointer + 1],
              PcJump(nnn))

\* CALL that wraps around a full stack instead of failing
op_2nnn_wrap(c, nnn) ==
    Done([c EXCEPT !.stack[c.stack_pointer % STACK_SIZE] =
                       c.program_counter + OPCODE_SIZE,
                   !.stack_pointer = (c.stack_pointer % STACK_SIZE) + 1],
         PcJump(nnn))

\* CALL addr: the store into stack[stack_pointer] panics when the stack is full
op_2nnn(c, nnn) ==
    IF c.stack_pointer >= STACK_SIZE
    THEN Panicked(c)
    ELSE Done([c EXCEPT !.stack[c.stack_pointer] = c.program_counter + OPCODE_SIZE,
                        !.stack_pointer = c.stack_pointer + 1],
              PcJump(nnn))

\* SE Vx, byte
op_3xkk(c, x, kk) ==
    Done(c, IF c.v_registers[x] = kk THEN PcSkip ELSE PcNext)

\* SNE Vx, byte
op_4xkk(c, x, kk) ==
    Done(c, IF c.v_registers[x] # kk THEN PcSkip ELSE PcNext)

\* SE Vx, Vy
op_5xy0(c, x, y) ==
    Done(c, IF c.v_registers[x] = c.v_registers[y] THEN PcSkip ELSE PcNext)

\* LD Vx, byte
op_6xkk(c, x, kk) == Done([c EXCEPT !.v_registers[x] = kk], PcNext)

\* an ADD Vx, byte that stores the byte instead of adding it
op_7xkk_store(c, x, kk) ==
    Done([c EXCEPT !.v_registers[x] = kk], PcNext)

\* ADD Vx, byte
op_7xkk(c, x, kk) ==
    Done([c EXCEPT !.v_registers[x] = wrapping_add(c.v_registers[x], kk)], PcNext)

\* LD Vx, Vy
op_8xy0(c, x, y) == Done([c EXCEPT !.v_registers[x] = c.v_registers[y]], PcNext)

\* OR Vx, Vy
op_8xy1(c, x, y) ==
    Done([c EXCEPT !.v_registers[x] = BitOr(c.v_registers[x], c.v_registers[y])],
         PcNext)

\* AND Vx, Vy
op_8xy2(c, x, y) ==
    Done([c EXCEPT !.v_registers[x] = BitAnd(c.v_registers[x], c.v_registers[y])],
         PcNext)

\* XOR Vx, Vy
op_8xy3(c, x, y) ==
    Done([c EXCEPT !.v_registers[x] = BitXor(c.v_registers[x], c.v_registers[y])],
         PcNext)

\* ADD that stores the carry before the sum, as SUB does
op_8xy4_flag_first(c, x, y) ==
    LET sum == c.v_registers[x] + c.v_registers[y]
        c1 == [c EXCEPT !.v_registers[15] = IF sum > 255 THEN 1 ELSE 0]
    IN  Done([c1 EXCEPT !.v_registers[x] = sum % 256], PcNext)

\* ADD Vx, Vy: overflowing_add, the result stored in Vx, then VF = carry
op_8xy4(c, x, y) ==
    LET sum == c.v_registers[x] + c.v_registers[y]
        result == sum % 256
        overflow == sum > 255
        c1 == [c EXCEPT !.v_registers[x] = result]
    IN  Done([c1 EXCEPT !.v_registers[15] = IF overflow THEN 1 ELSE 0], PcNext)

\* SUB Vx, Vy: VF is stored first, then Vx is computed from the registers
\* as they are after that store
op_8xy5(c, x, y) ==
    LET c1 == [c EXCEPT !.v_registers[15] =
                   IF c.v_registers[x] > c.v_registers[y] THEN 1 ELSE 0]
    IN  Done([c1 EXCEPT !.v_registers[x] =
                  wrapping_sub(c1.v_registers[x], c1.v_registers[y])],
             PcNext)

\* SHR Vx: VF is stored first, then Vx >>= 1
op_8x06(c, x) ==
    LET c1 == [c EXCEPT !.v_registers[15] = BitAnd(c.v_registers[x], 1)]
    IN  Done([c1 EXCEPT !.v_registers[x] = Shr8(c1.v_registers[x], 1)], PcNext)

\* SUBN Vx, Vy: VF is stored first, then Vx = Vy - Vx
op_8xy7(c, x, y) ==
    LET c1 == [c EXCEPT !.v_registers[15] =
                   IF c.v_registers[y] > c.v_registers[x] THEN 1 ELSE 0]
    IN  Done([c1 EXCEPT !.v_registers[x] =
                  wrapping_sub(c1.v_registers[y], c1.v_registers[x])],
             PcNext)

\* SHL Vx: VF is stored first, then Vx <<= 1
op_8x0e(c, x) ==
    LET c1 == [c EXCEPT !.v_registers[15] = Shr8(c.v_registers[x], 7)]
    IN  Done([c1 EXCEPT !.v_registers[x] = Shl8(c1.v_registers[x], 1)], PcNext)

\* SNE Vx, Vy
op_9xy0(c, x, y) ==
    Done(c, IF c.v_registers[x] # c.v_registers[y] THEN PcSkip ELSE PcNext)

\* LD I, addr
op_annn(c, nnn) == Done([c EXCEPT !.index_register = nnn], PcNext)

\* JP V0, addr
op_bnnn(c, nnn) == Done(c, PcJump(nnn + c.v_registers[0]))

\* RND Vx, byte: rnd is the byte the generator returns
op_cxkk(c, x, kk, rnd) ==
    Done([c EXCEPT !.v_registers[x] = BitAnd(rnd, kk)], PcNext)

\* DRW Vx, Vy, n: the inner loop over the 8 bits of sprite row `byte`; the
\* column is read from Vx and the sprite byte from memory at every bit
RECURSIVE dxyn_bits(_, _, _, _, _)
dxyn_bits(c, x, row, byte, bit) ==
    IF bit = 8
    THEN [cpu |-> c, panic |-> FALSE]
    ELSE LET col == (c.v_registers[x] + bit) % DISPLAY_WIDTH
         IN  IF c.index_register + byte >= MEMORY_SIZE
             THEN [cpu |-> c, panic |-> TRUE]
             ELSE LET color == BitAnd(Shr8(c.memory[c.index_register + byte],
                                           7 - bit), 1)
                      c1 == [c EXCEPT !.v_registers[15] =
                                 BitOr(@, BitAnd(color, c.display[row][col]))]
                      c2 == [c1 EXCEPT !.display[row][col] = BitXor(@, color)]
                  IN  dxyn_bits(c2, x, row, byte, bit + 1)

\* the outer loop over the n sprite rows; the row is read from Vy once per byte
RECURSIVE dxyn_rows(_, _, _, _, _)
dxyn_rows(c, x, y, n, byte) ==
    IF byte = n
    THEN [cpu |-> c, panic |-> FALSE]
    ELSE LET row == (c.v_registers[y] + byte) % DISPLAY_HEIGHT
             r == dxyn_bits(c, x, row, byte, 0)
         IN  IF r.panic THEN r ELSE dxyn_rows(r.cpu, x, y, n, byte + 1)

op_dxyn(c, x, y, n) ==
    LET c0 == [c EXCEPT !.v_registers[15] = 0]
        r == dxyn_rows(c0, x, y, n, 0)
    IN  IF r.panic
        THEN Panicked(r.cpu)
        ELSE Done([r.cpu EXCEPT !.display_changed = TRUE], PcNext)

\* SKP Vx: keypad[Vx] panics when Vx is not a key index
op_ex9e(c, x) ==
    IF c.v_registers[x] >= KEYPAD_SIZE
    THEN Panicked(c)
    ELSE Done(c, skip_if(c.keypad[c.v_registers[x]]))

\* SKNP Vx
op_exa1(c, x) ==
    IF c.v_registers[x] >= KEYPAD_SIZE
    THEN Panicked(c)
    ELSE Done(c, skip_if(~c.keypad[c.v_registers[x]]))

\* LD Vx, DT
op_fx07(c, x) == Done([c EXCEPT !.v_registers[x] = c.delay_timer], PcNext)

\* LD Vx, K
op_fx0a(c, x) ==
    Done([c EXCEPT !.keypad_waiting = TRUE, !.keypad_register = x], PcNext)

\* LD DT, Vx
op_fx15(c, x) == Done([c EXCEPT !.delay_timer = c.v_registers[x]], PcNext)

\* LD ST, Vx
op_fx18(c, x) == Done([c EXCEPT !.sound_timer = c.v_registers[x]], PcNext)

\* ADD I, Vx
op_fx1e(c, x) ==
    LET c1 == [c EXCEPT !.index_register = c.index_register + c.v_registers[x]]
    IN  Done([c1 EXCEPT !.v_registers[15] =
                  IF c1.index_register > 3840 THEN 1 ELSE 0],
             PcNext)

\* LD F, Vx
op_fx29(c, x) == Done([c EXCEPT !.index_register = c.v_registers[x] * 5], PcNext)

\* a BCD store whose tens digit is not reduced modulo 10
op_fx33_tens_unreduced(c, x) ==
    LET value == c.v_registers[x]
        i == c.index_register
        c1 == [c EXCEPT !.memory[i] = value \div 100]
        c2 == [c1 EXCEPT !.memory[i + 1] = value \div 10]
        c3 == [c2 EXCEPT !.memory[i + 2] = (value % 100) % 10]
    IN  IF i >= MEMORY_SIZE THEN Panicked(c)
        ELSE IF i + 1 >= MEMORY_SIZE THEN Panicked(c1)
        ELSE IF i + 2 >= MEMORY_SIZE THEN Panicked(c2)
        ELSE Done(c3, PcNext)

\* LD B, Vx: three stores, each of which panics past the end of memory
op_fx33(c, x) ==
    LET value == c.v_registers[x]
        i == c.index_register
        c1 == [c EXCEPT !.memory[i] = value \div 100]
        c2 == [c1 EXCEPT !.memory[i + 1] = (value \div 10) % 10]
        c3 == [c2 EXCEPT !.memory[i + 2] = (value % 100) % 10]
    IN  IF i >= MEMORY_SIZE THEN Panicked(c)
        ELSE IF i + 1 >= MEMORY_SIZE THEN Panicked(c1)
        ELSE IF i + 2 >= MEMORY_SIZE THEN Panicked(c2)
        ELSE Done(c3, PcNext)

\* a store loop with an exclusive upper bound: for i in 0..x
op_fx55_exclusive(c, x) ==
    LET fits(i) == c.index_register + i < MEMORY_SIZE
        mem == [a \in 0..(MEMORY_SIZE - 1) |->
                   IF a >= c.index_register /\ a - c.index_register < x
                   THEN c.v_registers[a - c.index_register]
                   ELSE c.memory[a]]
        c1 == [c EXCEPT !.memory = mem]
    IN  IF \A i \in 0..(x - 1) : fits(i) THEN Done(c1, PcNext) ELSE Panicked(c1)

\* LD [I], Vx: for i in 0..=x, the store panics at the first address past
\* the end of memory, after the earlier stores
op_fx55(c, x) ==
    LET fits(i) == c.index_register + i < MEMORY_SIZE
        mem == [a \in 0..(MEMORY_SIZE - 1) |->
                   IF a >= c.index_register /\ a - c.index_register <= x
                   THEN c.v_registers[a - c.index_register]
                   ELSE c.memory[a]]
        c1 == [c EXCEPT !.memory = mem]
    IN  IF \A i \in 0..x : fits(i) THEN Done(c1, PcNext) ELSE Panicked(c1)

\* LD Vx, [I]: for i in 0..=x, the load panics at the first address past
\* the end of memory, after the earlier loads
op_fx65(c, x) ==
    LET fits(i) == c.index_register + i < MEMORY_SIZE
        regs == [i \in Reg |->
                    IF i <= x /\ fits(i)
                    THEN c.memory[c.index_register + i]
                    ELSE c.v_registers[i]]
        c1 == [c EXCEPT !.v_registers = regs]
    IN  IF \A i \in 0..x : fits(i) THEN Done(c1, PcNext) ELSE Panicked(c1)

\* an engine that treats an opcode outside the table as fatal
unknown_opcode_fatal(c) == Panicked(c)

\* The default arm of the match: `_ => PcInstructions::Next`
unknown_opcode(c) == Done(c, PcNext)

(***************************************************************************)
(* Cpu::exec_opcode: decode and dispatch, the arms in the order of the     *)
(* match                                                                   *)
(***************************************************************************)
exec_opcode(c, opcode, bld, rnd) ==
    LET n0 == opcode \div 4096
        n1 == (opcode \div 256) % 16
        n2 == (opcode \div 16) % 16
        n3 == opcode % 16
        nnn == opcode % 4096
        kk == opcode % 256
        x == n1
        y == n2
        n == n3
    IN  CASE n0 = 0 /\ n1 = 0 /\ n2 = 14 /\ n3 = 0 -> op_00e0(c)
          [] n0 = 0 /\ n1 = 0 /\ n2 = 14 /\ n3 = 14 -> op_00ee(c, bld)
          [] n0 = 1 -> op_1nnn(c, nnn)
          [] n0 = 2 -> op_2nnn(c, nnn)
          [] n0 = 3 -> op_3xkk(c, x, kk)
          [] n0 = 4 -> op_4xkk(c, x, kk)
          [] n0 = 5 /\ n3 = 0 -> op_5xy0(c, x, y)
          [] n0 = 6 -> op_6xkk(c, x, kk)
          [] n0 = 7 -> op_7xkk(c, x, kk)
          [] n0 = 8 /\ n3 = 0 -> op_8xy0(c, x, y)
          [] n0 = 8 /\ n3 = 1 -> op_8xy1(c, x, y)
          [] n0 = 8 /\ n3 = 2 -> op_8xy2(c, x, y)
          [] n0 = 8 /\ n3 = 3 -> op_8xy3(c, x, y)
          [] n0 = 8 /\ n3 = 4 -> op_8xy4(c, x, y)
          [] n0 = 8 /\ n3 = 5 -> op_8xy5(c, x, y)
          [] n0 = 8 /\ n3 = 6 -> op_8x06(c, x)
          [] n0 = 8 /\ n3 = 7 -> op_8xy7(c, x, y)
          [] n0 = 8 /\ n3 = 14 -> op_8x0e(c, x)
          [] n0 = 9 /\ n3 = 0 -> op_9xy0(c, x, y)
          [] n0 = 10 -> op_annn(c, nnn)
          [] n0 = 11 -> op_bnnn(c, nnn)
          [] n0 = 12 -> op_cxkk(c, x, kk, rnd)
          [] n0 = 13 -> op_dxyn(c, x, y, n)
          [] n0 = 14 /\ n2 = 9 /\ n3 = 14 -> op_ex9e(c, x)
          [] n0 = 14 /\ n2 = 10 /\ n3 = 1 -> op_exa1(c, x)
          [] n0 = 15 /\ n2 = 0 /\ n3 = 7 -> op_fx07(c, x)
          [] n0 = 15 /\ n2 = 0 /\ n3 = 10 -> op_fx0a(c, x)
          [] n0 = 15 /\ n2 = 1 /\ n3 = 5 -> op_fx15(c, x)
          [] n0 = 15 /\ n2 = 1 /\ n3 = 8 -> op_fx18(c, x)
          [] n0 = 15 /\ n2 = 1 /\ n3 = 14 -> op_fx1e(c, x)
          [] n0 = 15 /\ n2 = 2 /\ n3 = 9 -> op_fx29(c, x)
          [] n0 = 15 /\ n2 = 3 /\ n3 = 3 -> op_fx33(c, x)
          [] n0 = 15 /\ n2 = 5 /\ n3 = 5 -> op_fx55(c, x)
          [] n0 = 15 /\ n2 = 6 /\ n3 = 5 -> op_fx65(c, x)
          [] OTHER -> unknown_opcode(c)

(***************************************************************************)
(* Cpu::cycle                                                              *)
(***************************************************************************)
\* a scan that does not stop at the first pressed key
last_pressed(kp) ==
    IF \E i \in 0..(KEYPAD_SIZE - 1) : kp[i]
    THEN CHOOSE i \in 0..(KEYPAD_SIZE - 1) :
             kp[i] /\ \A j \in (i + 1)..(KEYPAD_SIZE - 1) : ~kp[j]
    ELSE NoKey

\* The scan of the waiting branch: the first pressed key, if any
first_pressed(kp) ==
    IF \E i \in 0..(KEYPAD_SIZE - 1) : kp[i]
    THEN CHOOSE i \in 0..(KEYPAD_SIZE - 1) :
             kp[i] /\ \A j \in 0..(i - 1) : ~kp[j]
    ELSE NoKey

\* a driver that also advances past the target of a Jump
update_pc_jump_plus2(c, pci) ==
    CASE pci.tag = "Next" ->
             [c EXCEPT !.program_counter = c.program_counter + OPCODE_SIZE]
      [] pci.tag = "Skip" ->
             [c EXCEPT !.program_counter = c.program_counter + 2 * OPCODE_SIZE]
      [] pci.tag = "Jump" -> [c EXCEPT !.program_counter = pci.addr + OPCODE_SIZE]

\* The match on pc_instruction
update_pc(c, pci) ==
    CASE pci.tag = "Next" ->
             [c EXCEPT !.program_counter = c.program_counter + OPCODE_SIZE]
      [] pci.tag = "Skip" ->
             [c EXCEPT !.program_counter = c.program_counter + 2 * OPCODE_SIZE]
      [] pci.tag = "Jump" -> [c EXCEPT !.program_counter = pci.addr]

\* Update Timers
\* timers decremented without the > 0 guards, wrapping 0 to 255
update_timers_wrapping(c) ==
    [c EXCEPT !.delay_timer = wrapping_sub(@, 1),
              !.sound_timer = wrapping_sub(@, 1)]

update_timers(c) ==
    LET c1 == IF c.delay_timer > 0
              THEN [c EXCEPT !.delay_timer = c.delay_timer - 1] ELSE c
    IN  IF c1.sound_timer > 0
        THEN [c1 EXCEPT !.sound_timer = c1.sound_timer - 1] ELSE c1

\* an output whose beep flag follows the delay timer
OutputState_beep_on_delay(c) ==
    [display |-> c.display, display_changed |-> c.display_changed,
     beep |-> c.delay_timer > 0]

OutputState(c) ==
    [display |-> c.display, display_changed |-> c.display_changed,
     beep |-> c.sound_timer > 0]

\* a cycle that keeps the timers running while it waits for a key
cycle_timers_while_waiting(c, kp, bld, rnd) ==
    LET c0 == [c EXCEPT !.keypad = kp, !.display_changed = FALSE]
    IN  IF c0.keypad_waiting
        THEN LET i == first_pressed(kp)
                 c1 == IF i = NoKey THEN c0
                       ELSE [c0 EXCEPT !.keypad_waiting = FALSE,
                                       !.v_registers[c0.keypad_register] = i]
             IN  [cpu |-> update_timers(c1), opcode |-> NoOpcode,
                  panic |-> FALSE]
        ELSE IF fetch_panics(c0)
        THEN [cpu |-> c0, opcode |-> NoOpcode, panic |-> TRUE]
        ELSE LET opcode == fetch_opcode(c0)
                 r == exec_opcode(c0, opcode, bld, rnd)
             IN  IF r.panic
                 THEN [cpu |-> r.cpu, opcode |-> opcode, panic |-> TRUE]
                 ELSE [cpu |-> update_timers(update_pc(r.cpu, r.pc)),
                       opcode |-> opcode, panic |-> FALSE]

\* a cycle whose key scan reads the keypad stored by the call before
cycle_stale_keypad(c, kp, bld, rnd) ==
    LET c0 == [c EXCEPT !.keypad = kp, !.display_changed = FALSE]
    IN  IF c0.keypad_waiting
        THEN LET i == first_pressed(c.keypad)
                 c1 == IF i = NoKey THEN c0
                       ELSE [c0 EXCEPT !.keypad_waiting = FALSE,
                                       !.v_registers[c0.keypad_register] = i]
             IN  [cpu |-> c1, opcode |-> NoOpcode, panic |-> FALSE]
        ELSE IF fetch_panics(c0)
        THEN [cpu |-> c0, opcode |-> NoOpcode, panic |-> TRUE]
        ELSE LET opcode == fetch_opcode(c0)
                 r == exec_opcode(c0, opcode, bld, rnd)
             IN  IF r.panic
                 THEN [cpu |-> r.cpu, opcode |-> opcode, panic |-> TRUE]
                 ELSE [cpu |-> update_timers(update_pc(r.cpu, r.pc)),
                       opcode |-> opcode, panic |-> FALSE]

\* a cycle that does not clear display_changed when it starts
cycle_keeps_display_changed(c, kp, bld, rnd) ==
    LET c0 == [c EXCEPT !.keypad = kp]
    IN  IF c0.keypad_waiting
        THEN LET i == first_pressed(kp)
                 c1 == IF i = NoKey THEN c0
                       ELSE [c0 EXCEPT !.keypad_waiting = FALSE,
                                       !.v_registers[c0.keypad_register] = i]
             IN  [cpu |-> c1, opcode |-> NoOpcode, panic |-> FALSE]
        ELSE IF fetch_panics(c0)
        THEN [cpu |-> c0, opcode |-> NoOpcode, panic |-> TRUE]
        ELSE LET opcode == fetch_opcode(c0)
                 r == exec_opcode(c0, opcode, bld, rnd)
             IN  IF r.panic
                 THEN [cpu |-> r.cpu, opcode |-> opcode, panic |-> TRUE]
                 ELSE [cpu |-> update_timers(update_pc(r.cpu, r.pc)),
                       opcode |-> opcode, panic |-> FALSE]

\* a cycle that updates the timers before it executes the instruction
cycle_timers_first(c, kp, bld, rnd) ==
    LET c0 == [c EXCEPT !.keypad = kp, !.display_changed = FALSE]
    IN  IF c0.keypad_waiting
        THEN LET i == first_pressed(kp)
                 c1 == IF i = NoKey THEN c0
                       ELSE [c0 EXCEPT !.keypad_waiting = FALSE,
                                       !.v_registers[c0.keypad_register] = i]
             IN  [cpu |-> c1, opcode |-> NoOpcode, panic |-> FALSE]
        ELSE IF fetch_panics(c0)
        THEN [cpu |-> c0, opcode |-> NoOpcode, panic |-> TRUE]
        ELSE LET opcode == fetch_opcode(c0)
                 r == exec_opcode(update_timers(c0), opcode, bld, rnd)
             IN  IF r.panic
                 THEN [cpu |-> r.cpu, opcode |-> opcode, panic |-> TRUE]
                 ELSE [cpu |-> update_pc(r.cpu, r.pc),
                       opcode |-> opcode, panic |-> FALSE]

\* The whole call: the engine it leaves, the opcode it fetched (NoOpcode if
\* it fetched none), whether it panicked, and the OutputState it returns.
cycle(c, kp, bld, rnd) ==
    LET c0 == [c EXCEPT !.keypad = kp, !.display_changed = FALSE]
    IN  IF c0.keypad_waiting
        THEN LET i == first_pressed(kp)
                 c1 == IF i = NoKey THEN c0
                       ELSE [c0 EXCEPT !.keypad_waiting = FALSE,
                                       !.v_registers[c0.keypad_register] = i]
             IN  [cpu |-> c1, opcode |-> NoOpcode, panic |-> FALSE]
        ELSE IF fetch_panics(c0)
        THEN [cpu |-> c0, opcode |-> NoOpcode, panic |-> TRUE]
        ELSE LET opcode == fetch_opcode(c0)
                 r == exec_opcode(c0, opcode, bld, rnd)
             IN  IF r.panic
                 THEN [cpu |-> r.cpu, opcode |-> opcode, panic |-> TRUE]
                 ELSE [cpu |-> update_timers(update_pc(r.cpu, r.pc)),
                       opcode |-> opcode, panic |-> FALSE]

(***************************************************************************)
(* The engine driven by its caller: new, load_program, then cycle after    *)
(* cycle (main.rs).  A call that panics ends the run.                      *)
(***************************************************************************)
(***************************************************************************)
(* display.rs: struct Display, a width * height buffer of 0 / 1 bytes      *)
(***************************************************************************)
MaxDraws == 2

Display_new(width, height) ==
    [width |-> width, height |-> height,
     buffer |-> [i \in 0..(width * height - 1) |-> 0]]

buffer_len(d) == d.width * d.height

Display_clear(d) == [d EXCEPT !.buffer = [i \in DOMAIN d.buffer |-> 0]]

\* index = (x + y * width) % buffer.len()
toggle_pixel(d, x, y) ==
    LET index == (x + (y * d.width)) % buffer_len(d)
    IN  [d EXCEPT !.buffer[index] = BitXor(@, 1)]

\* the two loops of draw_sprite, flattened: step k is bit j = k % 8 of sprite
\* row i = k \div 8; the pixel index wraps on the length of the whole buffer
RECURSIVE draw_sprite_from(_, _, _, _, _, _)
draw_sprite_from(d, x, y, sprite, k, collision) ==
    IF k = 8 * Len(sprite)
    THEN [display |-> d, ret |-> collision]
    ELSE LET i == k \div 8
             j == k % 8
             pixel == BitAnd(Shr8(sprite[i + 1], 7 - j), 1)
             index == (x + j + ((y + i) * d.width)) % buffer_len(d)
             hit == pixel = 1 /\ d.buffer[index] = 1
             d1 == [d EXCEPT !.buffer[index] = BitXor(@, pixel)]
         IN  draw_sprite_from(d1, x, y, sprite, k + 1, collision \/ hit)

draw_sprite(d, x, y, sprite) == draw_sprite_from(d, x, y, sprite, 0, FALSE)

NoScreen == [none |-> TRUE]
NoCall == [n |-> 0, op |-> "none"]

NoOutput == [none |-> TRUE]

InitWith(roms, padsets, builds, rngs, budgets) ==
    /\ cpu = new
    /\ status = "ok"
    /\ output = NoOutput
    /\ loaded = FALSE
    /\ ncycles = 0
    /\ rom \in roms
    /\ pads \in padsets
    /\ build \in builds
    /\ rng \in rngs
    /\ budget \in budgets
    /\ opcode1 = NoOpcode
    /\ opcode2 = NoOpcode
    /\ prev = new
    /\ prev2 = new
    /\ screen = NoScreen
    /\ drawn = NoCall
    /\ calls = <<>>

\* load_program may be called at any time; the caller calls it at most once
LoadProgram ==
    /\ status = "ok"
    /\ ~loaded
    /\ LET r == load_program(cpu, rom)
       IN  /\ cpu' = r.cpu
           /\ status' = IF r.panic THEN "panic" ELSE "ok"
    /\ loaded' = TRUE
    /\ prev' = cpu
    /\ prev2' = prev
    /\ opcode1' = NoOpcode
    /\ opcode2' = opcode1
    /\ calls' = Append(calls, "load_program")
    /\ UNCHANGED <<output, ncycles, rom, pads, build, rng, budget, screen, drawn>>

\* cycle may be called with or without a program loaded (main.rs calls it
\* once on the engine as constructed)
Cycle(kp, rnd) ==
    /\ status = "ok"
    /\ ncycles < budget
    /\ loaded \/ ncycles < MaxUnloaded
    /\ LET r == cycle(cpu, kp, build, rnd)
       IN  /\ cpu' = r.cpu
           /\ status' = IF r.panic THEN "panic" ELSE "ok"
           /\ output' = IF r.panic THEN output ELSE OutputState(r.cpu)
           /\ opcode1' = r.opcode
    /\ ncycles' = ncycles + 1
    /\ prev' = cpu
    /\ prev2' = prev
    /\ opcode2' = opcode1
    /\ calls' = Append(calls, "cycle")
    /\ UNCHANGED <<loaded, rom, pads, build, rng, budget, screen, drawn>>

Next ==
    \/ LoadProgram
    \/ \E kp \in pads : \E rnd \in rng : Cycle(kp, rnd)

(***************************************************************************)
(* A caller of display.rs: makes a Display and calls its methods           *)
(***************************************************************************)
ScreenSizes == {<<DISPLAY_WIDTH, DISPLAY_HEIGHT>>, <<8, 4>>}
ScreenXs(d) == IF d = NoScreen THEN {} ELSE {0, 5, d.width - 1}
ScreenYs(d) == IF d = NoScreen THEN {} ELSE {0, d.height - 1}
Sprites == {<<192>>, <<255, 129>>}

CpuIdle ==
    UNCHANGED <<cpu, status, output, loaded, ncycles, rom, pads, build, rng,
                budget, opcode1, opcode2, prev, prev2, calls>>

NewDisplay(width, height) ==
    /\ screen = NoScreen
    /\ screen' = Display_new(width, height)
    /\ drawn' = [n |-> 0, op |-> "new"]
    /\ CpuIdle

ClearDisplay ==
    /\ screen # NoScreen
    /\ drawn.n < MaxDraws
    /\ screen' = Display_clear(screen)
    /\ drawn' = [n |-> drawn.n + 1, op |-> "clear", before |-> screen.buffer]
    /\ CpuIdle

TogglePixel(x, y) ==
    /\ screen # NoScreen
    /\ drawn.n < MaxDraws
    /\ screen' = toggle_pixel(screen, x, y)
    /\ drawn' = [n |-> drawn.n + 1, op |-> "toggle_pixel", x |-> x, y |-> y,
                 before |-> screen.buffer]
    /\ CpuIdle

DrawSprite(x, y, sprite) ==
    /\ screen # NoScreen
    /\ drawn.n < MaxDraws
    /\ LET r == draw_sprite(screen, x, y, sprite)
       IN  /\ screen' = r.display
           /\ drawn' = [n |-> drawn.n + 1, op |-> "draw_sprite", x |-> x,
                        y |-> y, sprite |-> sprite, before |-> screen.buffer,
                        ret |-> r.ret]
    /\ CpuIdle

NextScreen ==
    \/ \E size \in ScreenSizes : NewDisplay(size[1], size[2])
    \/ ClearDisplay
    \/ \E x \in ScreenXs(screen) : TogglePixel(x, 0)
    \/ \E x \in ScreenXs(screen), y \in ScreenYs(screen), sprite \in Sprites :
           DrawSprite(x, y, sprite)

InitScreen == InitWith({<<>>}, {{NoKeys}}, {"debug"}, {{0}}, {0})
SpecScreen == InitScreen /\ [][NextScreen]_vars

(***************************************************************************)
(* main.rs: makes the engine and calls cycle once with all sixteen keys    *)
(* down; it loads no program                                               *)
(***************************************************************************)
AllKeys == [i \in 0..(KEYPAD_SIZE - 1) |-> TRUE]

InitMain == InitWith({<<>>}, {{AllKeys}}, {"debug", "release"}, {{0}}, {1})
SpecMain == InitMain /\ [][Next]_vars

\* the state main.rs ends in: one cycle call, no load_program
MainRan == calls = <<"cycle">> /\ cpu.keypad = AllKeys

(***************************************************************************)
(* Programs                                                                *)
(***************************************************************************)
Op(n0, n1, n2, n3) == n0 * 4096 + n1 * 256 + n2 * 16 + n3
OpNnn(n0, nnn) == n0 * 4096 + nnn
OpXkk(n0, x, kk) == n0 * 4096 + x * 256 + kk

\* the bytes of a sequence of opcodes, big-endian
Code(ops) ==
    [i \in 1..(2 * Len(ops)) |->
        IF i % 2 = 1 THEN ops[(i + 1) \div 2] \div 256 ELSE ops[i \div 2] % 256]

\* the program image holding segment segs[k][2] of opcodes at address
\* segs[k][1] (the earliest segment wins where two overlap), zero elsewhere
Image(segs) ==
    LET covers(k, a) == segs[k][1] <= a /\ a < segs[k][1] + 2 * Len(segs[k][2])
        ends == {segs[k][1] + 2 * Len(segs[k][2]) : k \in DOMAIN segs}
        end == CHOOSE e \in ends : \A f \in ends : f <= e
    IN  [i \in 1..(end - PROGRAM_START) |->
            LET a == PROGRAM_START + i - 1
                hit == {k \in DOMAIN segs : covers(k, a)}
            IN  IF hit = {} THEN 0
                ELSE LET k == CHOOSE h \in hit : \A g \in hit : h <= g
                     IN  Code(segs[k][2])[a - segs[k][1] + 1]]

RET == Op(0, 0, 14, 14)
CLS == Op(0, 0, 14, 0)
JP(nnn) == OpNnn(1, nnn)
CALL(nnn) == OpNnn(2, nnn)
LD(x, kk) == OpXkk(6, x, kk)

IsCall(op) == op \div 4096 = 2

(***************************************************************************)
(* Call / return programs                                                  *)
(***************************************************************************)
CallSites == {512, 514, 752, 3836}
CallTargets == {516, 768, 4094}

\* jump to the call site p, call nnn from there, return at nnn, then loop
\* at p + 2
CallRetRom(p, nnn) ==
    Image(<< <<nnn, <<RET>>>>,
             <<p, <<CALL(nnn), JP(p + 2)>>>>,
             <<PROGRAM_START, <<JP(p)>>>> >>)

\* three nested calls, returned from in turn
NestedRom ==
    Image(<< <<PROGRAM_START, <<CALL(528), JP(514)>>>>,
             <<528, <<CALL(544), RET>>>>,
             <<544, <<CALL(560), RET>>>>,
             <<560, <<RET>>>> >>)

\* a subroutine that calls itself, and a return with nothing to return to
RecursionRom == Image(<< <<PROGRAM_START, <<CALL(PROGRAM_START)>>>> >>)
UnderflowRom == Image(<< <<PROGRAM_START, <<RET>>>> >>)

CallRoms ==
    {CallRetRom(p, nnn) : p \in CallSites, nnn \in CallTargets}
        \cup {NestedRom, RecursionRom, UnderflowRom}

InitCall ==
    InitWith(CallRoms, {{NoKeys}}, {"debug", "release"}, {{0}}, {MaxCycles})
SpecCall == InitCall /\ [][Next]_vars

(***************************************************************************)
(* Arithmetic programs: load Vx and Vy, then one 8xy_ instruction          *)
(***************************************************************************)
AluRegs == {0, 1, 15}
AluVals == {0, 1, 10, 128, 250, 255}
AluOps == {4, 5, 6, 7, 14}

AluRom(x, y, a, b, n3) ==
    Image(<< <<PROGRAM_START, <<LD(x, a), LD(y, b), Op(8, x, y, n3)>>>> >>)

AluRoms ==
    {AluRom(x, y, a, b, n3) :
        x \in AluRegs, y \in AluRegs, a \in AluVals, b \in AluVals, n3 \in AluOps}

InitAlu == InitWith(AluRoms, {{NoKeys}}, {"debug"}, {{0}}, {ShortRun})
SpecAlu == InitAlu /\ [][Next]_vars

(***************************************************************************)
(* Program-counter programs: skips, jumps                                  *)
(***************************************************************************)
PcRegs == {0, 7, 15}
PcVals == {0, 1, 255}
JumpTargets == {0, 512, 752, 4094, 4095}

\* load Vx and Vy, run `op`, then loop at whichever address comes next
SkipRom(x, y, a, b, op) ==
    Image(<< <<PROGRAM_START,
               <<LD(x, a), LD(y, b), op, JP(PROGRAM_START + 6),
                 JP(PROGRAM_START + 8)>>>> >>)

SkipOps(x, y) ==
    {OpXkk(3, x, kk) : kk \in PcVals} \cup {OpXkk(4, x, kk) : kk \in PcVals}
        \cup {Op(5, x, y, 0), Op(9, x, y, 0)}

SkipRoms ==
    UNION {{SkipRom(x, y, a, b, op) : op \in SkipOps(x, y)} :
              x \in PcRegs, y \in PcRegs, a \in PcVals, b \in PcVals}

JumpRoms ==
    {Image(<< <<PROGRAM_START, <<JP(nnn)>>>> >>) : nnn \in JumpTargets}
        \cup {Image(<< <<PROGRAM_START, <<LD(0, v0), OpNnn(11, nnn)>>>> >>) :
                 v0 \in PcVals, nnn \in JumpTargets}

InitPc ==
    InitWith(SkipRoms \cup JumpRoms, {{NoKeys}}, {"debug"}, {{0}}, {ShortRun})
SpecPc == InitPc /\ [][Next]_vars

(***************************************************************************)
(* Keypad programs: set the timers, then wait for a key into Vx            *)
(***************************************************************************)
Keys(S) == [i \in 0..(KEYPAD_SIZE - 1) |-> i \in S]
KeyPads == {NoKeys, Keys({7}), Keys({3, 7})}
KeyRegs == {0, 1, 15}
KeyTimes == {0, 9}

WAITKEY(x) == Op(15, x, 0, 10)

KeyRom(x, d) ==
    Image(<< <<PROGRAM_START,
               <<LD(1, d), Op(15, 1, 1, 5), Op(15, 1, 1, 8), LD(x, 170),
                 WAITKEY(x), OpXkk(7, x, 1), JP(PROGRAM_START + 12)>>>> >>)

KeyRoms == {KeyRom(x, d) : x \in KeyRegs, d \in KeyTimes}

InitKey == InitWith(KeyRoms, {KeyPads}, {"debug"}, {{0}}, {MidRun})
SpecKey == InitKey /\ [][Next]_vars

(***************************************************************************)
(* Programs that run opcodes outside the instruction table, after a        *)
(* prologue that leaves no field of the engine at its initial value        *)
(***************************************************************************)
\* the instruction table of the specification (section 4.3)
InTable(op) ==
    LET n0 == op \div 4096
        n3 == op % 16
        kk == op % 256
    IN  \/ op = 224 \/ op = 238
        \/ n0 \in {1, 2, 3, 4, 6, 7, 10, 11, 12, 13}
        \/ n0 \in {5, 9} /\ n3 = 0
        \/ n0 = 8 /\ n3 \in {0, 1, 2, 3, 4, 5, 6, 7, 14}
        \/ n0 = 14 /\ kk \in {158, 161}
        \/ n0 = 15 /\ kk \in {7, 10, 21, 24, 30, 41, 51, 85, 101}

Prologue ==
    << LD(1, 30), Op(15, 1, 1, 5), Op(15, 1, 1, 8), Op(13, 1, 1, 5),
       OpNnn(10, 291), CALL(PROGRAM_START + 12) >>

UnknownFamilies == {0, 5, 8, 9, 14, 15}
UnknownX == {0, 10, 15}

\* the opcodes n0 n1 n2 lo .. n0 n1 n2 (lo + 7) that are outside the table
UnknownRun(n0, n1, n2, lo) ==
    SelectSeq([i \in 1..8 |-> Op(n0, n1, n2, lo + i - 1)],
              LAMBDA op : ~InTable(op))

UnknownRoms ==
    {Image(<< <<PROGRAM_START, Prologue \o UnknownRun(n0, n1, n2, lo)>> >>) :
        n0 \in UnknownFamilies, n1 \in UnknownX, n2 \in 0..15, lo \in {0, 8}}

InitUnknown == InitWith(UnknownRoms, {{NoKeys}}, {"debug"}, {{0}}, {MaxCycles})
SpecUnknown == InitUnknown /\ [][Next]_vars

(***************************************************************************)
(* Draw programs: a background sprite, then one Dxyn over it               *)
(***************************************************************************)
DrawRegs == {0, 1, 15}
DrawXs == {0, 5, 59, 200}
DrawYs == {0, 27, 31, 100}
DrawNs == {0, 1, 5, 15}

DRW(x, y, n) == Op(13, x, y, n)
LDI(nnn) == OpNnn(10, nnn)

\* 15 sprite rows, stored as 8 opcodes' worth of bytes at SpriteAt
SpriteAt == PROGRAM_START + 32
SpriteData == << 65409, 15600, 43605, 4080, 65535, 385, 32190, 6144 >>

\* draw 6 rows at (60, 28), which wraps around both edges; then load Vx and
\* Vy and draw n rows of the same sprite at (Vx, Vy)
DrawRom(x, y, a, b, n) ==
    Image(<< <<PROGRAM_START,
               <<LDI(SpriteAt), LD(2, 60), LD(3, 28), DRW(2, 3, 6),
                 LD(x, a), LD(y, b), DRW(x, y, n),
                 JP(PROGRAM_START + 14)>>>>,
             <<SpriteAt, SpriteData>> >>)

DrawRoms ==
    {DrawRom(x, y, a, b, n) :
        x \in DrawRegs, y \in DrawRegs, a \in DrawXs, b \in DrawYs, n \in DrawNs}

InitDraw == InitWith(DrawRoms, {{NoKeys}}, {"debug"}, {{0}}, {MidRun})
SpecDraw == InitDraw /\ [][Next]_vars

(***************************************************************************)
(* Programs that run the same Dxyn twice in a row over a background        *)
(***************************************************************************)
TwiceXs == {0, 59}
TwiceYs == {0, 31}
TwiceNs == {1, 5, 15}

DrawTwiceRom(x, y, a, b, n) ==
    Image(<< <<PROGRAM_START,
               <<LDI(SpriteAt), LD(2, 60), LD(3, 28), DRW(2, 3, 6),
                 LD(x, a), LD(y, b), DRW(x, y, n), DRW(x, y, n),
                 JP(PROGRAM_START + 16)>>>>,
             <<SpriteAt, SpriteData>> >>)

DrawTwiceRoms ==
    {DrawTwiceRom(x, y, a, b, n) :
        x \in DrawRegs, y \in DrawRegs, a \in TwiceXs, b \in TwiceYs,
        n \in TwiceNs}

InitDrawTwice == InitWith(DrawTwiceRoms, {{NoKeys}}, {"debug"}, {{0}}, {MidRun})
SpecDrawTwice == InitDrawTwice /\ [][Next]_vars

(***************************************************************************)
(* Programs that load registers from data, store them and load them back   *)
(***************************************************************************)
StoreTargets == {0, 768, MEMORY_SIZE - 16, MEMORY_SIZE - 8}
STORE(x) == Op(15, x, 5, 5)
LOAD(x) == Op(15, x, 6, 5)
DataA == PROGRAM_START + 32
DataB == PROGRAM_START + 48

\* V0..VF = 16, 31, ..., 241 from DataA, then V0..Vx = 200, 201, ... from
\* DataB, then V0..Vx stored at t and loaded back
StoreRom(x, t) ==
    Image(<< <<PROGRAM_START,
               <<LDI(DataA), LOAD(15), LDI(DataB), LOAD(x),
                 LDI(t), STORE(x), LOAD(x), JP(PROGRAM_START + 14)>>>>,
             <<DataA, [i \in 1..8 |-> (30 * i - 14) * 256 + 30 * i + 1]>>,
             <<DataB, [i \in 1..8 |-> (198 + 2 * i) * 256 + 199 + 2 * i]>> >>)

StoreRoms == {StoreRom(x, t) : x \in Reg, t \in StoreTargets}

InitStore == InitWith(StoreRoms, {{NoKeys}}, {"debug"}, {{0}}, {MidRun})
SpecStore == InitStore /\ [][Next]_vars

(***************************************************************************)
(* Programs that start both timers and keep running, waiting for a key     *)
(***************************************************************************)
TimerVals == {0, 1, 2, 255}
TimerPads == {NoKeys, Keys({7})}

\* DT = d and ST = e, then a loop that reads DT, counts in V2 and waits for
\* a key
TimerRom(d, e) ==
    Image(<< <<PROGRAM_START,
               <<LD(1, d), LD(2, e), Op(15, 1, 1, 5), Op(15, 2, 1, 8),
                 Op(15, 0, 0, 7), CLS, OpXkk(7, 2, 1), WAITKEY(3),
                 JP(PROGRAM_START + 8)>>>> >>)

TimerRoms == {TimerRom(d, e) : d \in TimerVals, e \in TimerVals}

InitTimer == InitWith(TimerRoms, {TimerPads}, {"debug"}, {{0}}, {MaxCycles})
SpecTimer == InitTimer /\ [][Next]_vars

(***************************************************************************)
(* Programs of given lengths, up to and past the room above 0x200          *)
(***************************************************************************)
ProgramRoom == MEMORY_SIZE - PROGRAM_START
LoadLengths ==
    {0, 1, 2, 3, 8, 100, ProgramRoom - 1, ProgramRoom, ProgramRoom + 1,
     ProgramRoom + 16}
LoadSeeds == {0, 100, 254}

\* byte i (from 1) is (k + i) mod 256: never 0 at the last address for these
\* seeds, and only unknown opcodes and 6xkk in the first instructions
LoadRom(len, k) == [i \in 1..len |-> (k + i) % 256]
LoadRoms == {LoadRom(len, k) : len \in LoadLengths, k \in LoadSeeds}

InitLoad == InitWith(LoadRoms, {{NoKeys}}, {"debug"}, {{0}}, {ShortRun})
SpecLoad == InitLoad /\ [][Next]_vars

(***************************************************************************)
(* The program of the spec's scenario: CLS, LD V0 5, ADD V0 3, 0x0000      *)
(***************************************************************************)
ScenarioRom == Image(<< <<PROGRAM_START, <<CLS, LD(0, 5), OpXkk(7, 0, 3), 0>>>> >>)

ScenarioPads == {NoKeys, Keys({3, 7}), AllKeys}

InitScenario ==
    InitWith({ScenarioRom}, {ScenarioPads}, {"debug"}, {{0}}, {MidRun})
SpecScenario == InitScenario /\ [][Next]_vars

(***************************************************************************)
(* Programs that load Vx and skip on key Vx                                *)
(***************************************************************************)
SkipKeyRegs == {0, 15}
SkipKeyVals == {0, 3, 7, 15, 16, 255}
SKP(x) == Op(14, x, 9, 14)
SKNP(x) == Op(14, x, 10, 1)

SkipKeyRom(x, v, op) ==
    Image(<< <<PROGRAM_START,
               <<LD(x, v), op, JP(PROGRAM_START + 4), JP(PROGRAM_START + 6)>>>> >>)

SkipKeyRoms ==
    {SkipKeyRom(x, v, SKP(x)) : x \in SkipKeyRegs, v \in SkipKeyVals}
        \cup {SkipKeyRom(x, v, SKNP(x)) : x \in SkipKeyRegs, v \in SkipKeyVals}

InitSkipKey == InitWith(SkipKeyRoms, {KeyPads}, {"debug"}, {{0}}, {ShortRun})
SpecSkipKey == InitSkipKey /\ [][Next]_vars

(***************************************************************************)
(* Programs that load Vx and store its decimal digits at I                 *)
(***************************************************************************)
BcdRegs == {0, 15}
BcdEdgeVals == {0, 9, 10, 99, 100, 199, 255}
BcdTargets == {768, MEMORY_SIZE - 3, MEMORY_SIZE - 2, MEMORY_SIZE - 1}
BCD(x) == Op(15, x, 3, 3)

BcdRom(x, v, t) ==
    Image(<< <<PROGRAM_START,
               <<LD(x, v), LDI(t), BCD(x), JP(PROGRAM_START + 6)>>>> >>)

\* every byte value through V0, and the edge values through both registers
\* at every target
BcdRoms ==
    {BcdRom(0, v, 768) : v \in Byte}
        \cup {BcdRom(x, v, t) :
                 x \in BcdRegs, v \in BcdEdgeVals, t \in BcdTargets}

InitBcd == InitWith(BcdRoms, {{NoKeys}}, {"debug"}, {{0}}, {ShortRun})
SpecBcd == InitBcd /\ [][Next]_vars

(***************************************************************************)
(* Programs that draw, clear, run other instructions and wait for a key    *)
(***************************************************************************)
DirtyNs == {0, 1, 5}
DirtyOthers == {LD(4, 1), Op(0, 0, 14, 1), Op(0, 0, 15, 0), Op(8, 0, 1, 3)}

\* draw n rows, run `other`, wait for a key, clear, run `other`, draw again
DirtyRom(n, other) ==
    Image(<< <<PROGRAM_START,
               <<LDI(SpriteAt), DRW(0, 1, n), other, WAITKEY(3), CLS, other,
                 DRW(3, 3, n), JP(PROGRAM_START + 4)>>>>,
             <<SpriteAt, SpriteData>> >>)

DirtyRoms == {DirtyRom(n, other) : n \in DirtyNs, other \in DirtyOthers}

InitDirty == InitWith(DirtyRoms, {TimerPads}, {"debug"}, {{0}}, {MidRun})
SpecDirty == InitDirty /\ [][Next]_vars

(***************************************************************************)
(* Programs that set the delay timer, read it back and set the sound timer *)
(***************************************************************************)
SetTimerRegs == {0, 1, 15}
SetTimerVals == {0, 1, 2, 3, 128, 254, 255}
LDDT(x) == Op(15, x, 1, 5)
LDST(x) == Op(15, x, 1, 8)
RDDT(x) == Op(15, x, 0, 7)

SetTimerRom(x, k) ==
    Image(<< <<PROGRAM_START,
               <<LD(x, k), LDDT(x), RDDT(0), LD(x, k), LDST(x),
                 JP(PROGRAM_START + 10)>>>> >>)

SetTimerRoms == {SetTimerRom(x, k) : x \in SetTimerRegs, k \in SetTimerVals}

InitSetTimer ==
    InitWith(SetTimerRoms, {TimerPads}, {"debug"}, {{0}}, {MidRun})
SpecSetTimer == InitSetTimer /\ [][Next]_vars

(***************************************************************************)
(* Properties                                                              *)
(***************************************************************************)
Ran(op) == ncycles >= 1 /\ opcode1 = op
RanOk(op) == Ran(op) /\ status = "ok"

\* the operand fields of the opcode the last cycle fetched
X1 == (opcode1 \div 256) % 16
Y1 == (opcode1 \div 16) % 16
N1 == opcode1 % 16
KK1 == opcode1 % 256
NNN1 == opcode1 % 4096
\* the last cycle fetched an opcode of the 8xy_ family with last nibble n3
RanAlu(n3) == ncycles >= 1 /\ opcode1 \div 4096 = 8 /\ N1 = n3
\* the opcode held by the engine c at address a
OpAt(c, a) == c.memory[a] * 256 + c.memory[a + 1]
KeyDown(kp) == \E i \in 0..(KEYPAD_SIZE - 1) : kp[i]
\* the registers before the last cycle
VxBefore == prev.v_registers[X1]
VyBefore == prev.v_registers[Y1]

\* C3: a Call at PC = p followed immediately by a Return leaves PC = p + 2
\* and the stack depth as before the call; every Call pushes PC + 2 on top
\* of the stack and every Return pops the top of the stack into PC, so
\* nested returns come back in last-in-first-out order.
C3_CallThenReturn ==
    /\ (status = "ok" /\ ncycles >= 2 /\ IsCall(opcode2) /\ opcode1 = RET)
          => /\ cpu.program_counter = prev2.program_counter + 2
             /\ cpu.stack_pointer = prev2.stack_pointer
    /\ (status = "ok" /\ ncycles >= 1 /\ IsCall(opcode1))
          => /\ cpu.stack_pointer = prev.stack_pointer + 1
             /\ cpu.stack[prev.stack_pointer] = prev.program_counter + 2
             /\ cpu.program_counter = opcode1 % 4096
    /\ RanOk(RET)
          => /\ cpu.stack_pointer = prev.stack_pointer - 1
             /\ cpu.program_counter = prev.stack[prev.stack_pointer - 1]

\* a nested call (two return addresses already pushed) from a call site
\* away from the program start, returned from in the next cycle
C3_Witness ==
    /\ status = "ok" /\ ncycles >= 2 /\ IsCall(opcode2) /\ opcode1 = RET
    /\ prev2.stack_pointer = 2
    /\ prev2.program_counter = 544

\* C4: a Call on a full stack and a Return on an empty stack end in the
\* error state; whenever the engine is not in the error state the stack
\* pointer is within 0..16, a Call has written only the slot it pushed and
\* a Return has read the slot below the old stack pointer and written none.
C4_StackErrors ==
    /\ status = "ok" => cpu.stack_pointer \in 0..STACK_SIZE
    /\ (ncycles >= 1 /\ IsCall(opcode1) /\ prev.stack_pointer = STACK_SIZE)
          => status = "panic"
    /\ (Ran(RET) /\ prev.stack_pointer = 0) => status = "panic"
    /\ (status = "ok" /\ ncycles >= 1 /\ IsCall(opcode1))
          => /\ prev.stack_pointer < STACK_SIZE
             /\ cpu.stack_pointer = prev.stack_pointer + 1
             /\ \A i \in 0..(STACK_SIZE - 1) :
                    i # prev.stack_pointer => cpu.stack[i] = prev.stack[i]
    /\ RanOk(RET)
          => /\ prev.stack_pointer > 0
             /\ cpu.stack_pointer = prev.stack_pointer - 1
             /\ cpu.stack = prev.stack

\* the seventeenth nested call has just failed
C4_Witness ==
    /\ status = "panic" /\ ncycles >= 1 /\ IsCall(opcode1)
    /\ prev.stack_pointer = STACK_SIZE

\* C7: ADD (8xy4) never fails, leaves VF = 1 iff the sum of the operands as
\* they were before the instruction exceeds 255, and, for x # 0xF, leaves
\* Vx = the sum mod 256; no other register changes.
C7_Add ==
    RanAlu(4) =>
        /\ status = "ok"
        /\ cpu.v_registers[15] = (IF VxBefore + VyBefore > 255 THEN 1 ELSE 0)
        /\ X1 # 15 => cpu.v_registers[X1] = (VxBefore + VyBefore) % 256
        /\ \A i \in Reg : (i # X1 /\ i # 15)
               => cpu.v_registers[i] = prev.v_registers[i]

\* 8014 was run with V0 = 250 and V1 = 10
C7_Witness ==
    /\ RanAlu(4) /\ X1 = 0 /\ Y1 = 1
    /\ VxBefore = 250 /\ VyBefore = 10
    /\ cpu.v_registers[0] = 4 /\ cpu.v_registers[15] = 1

\* C8 (as claimed): SUB (8xy5) and SUBN (8xy7) compute the difference from
\* the operands as they were before the instruction, for every x and y, and
\* VF ends as 1 iff the minuend was greater than the subtrahend.
C8_SubClaim ==
    /\ RanAlu(5) =>
          /\ cpu.v_registers[15] = (IF VxBefore > VyBefore THEN 1 ELSE 0)
          /\ X1 # 15 => cpu.v_registers[X1] = (VxBefore - VyBefore + 256) % 256
    /\ RanAlu(7) =>
          /\ cpu.v_registers[15] = (IF VyBefore > VxBefore THEN 1 ELSE 0)
          /\ X1 # 15 => cpu.v_registers[X1] = (VyBefore - VxBefore + 256) % 256

\* C9 (as claimed): after SHR (8xy6) VF is the least-significant bit Vx had,
\* after SHL (8xyE) the most-significant bit, for every x including 0xF; for
\* x # 0xF, Vx is the old value shifted by one bit within 8 bits.
C9_ShiftClaim ==
    /\ RanAlu(6) =>
          /\ cpu.v_registers[15] = VxBefore % 2
          /\ X1 # 15 => cpu.v_registers[X1] = VxBefore \div 2
    /\ RanAlu(14) =>
          /\ cpu.v_registers[15] = VxBefore \div 128
          /\ X1 # 15 => cpu.v_registers[X1] = (VxBefore * 2) % 256

\* C6: a cycle that fetches a skip instruction advances PC by 4 iff its
\* condition holds of the registers before it and by 2 otherwise; 1nnn
\* leaves PC = nnn and Bnnn leaves PC = nnn + V0, with nothing added.
C6_PcEffect ==
    LET n0 == opcode1 \div 4096
        pc0 == prev.program_counter
        step(cond) == IF cond THEN pc0 + 4 ELSE pc0 + 2
    IN  (ncycles >= 1 /\ opcode1 # NoOpcode) =>
          /\ n0 = 3 => /\ status = "ok"
                       /\ cpu.program_counter = step(VxBefore = KK1)
          /\ n0 = 4 => /\ status = "ok"
                       /\ cpu.program_counter = step(VxBefore # KK1)
          /\ (n0 = 5 /\ N1 = 0)
                => /\ status = "ok"
                   /\ cpu.program_counter = step(VxBefore = VyBefore)
          /\ (n0 = 9 /\ N1 = 0)
                => /\ status = "ok"
                   /\ cpu.program_counter = step(VxBefore # VyBefore)
          /\ n0 = 1 => /\ status = "ok"
                       /\ cpu.program_counter = NNN1
          /\ n0 = 11 => /\ status = "ok"
                        /\ cpu.program_counter = NNN1 + prev.v_registers[0]

\* 5xy0 on two different registers holding the same non-zero value skipped
C6_Witness ==
    /\ ncycles >= 1 /\ opcode1 # NoOpcode /\ opcode1 \div 4096 = 5 /\ N1 = 0
    /\ X1 # Y1 /\ VxBefore = 255 /\ VyBefore = 255
    /\ cpu.program_counter = prev.program_counter + 4

\* C1: a cycle that executes Fx0A leaves the engine waiting for a key into
\* Vx; a cycle called with no key pressed while the engine waits fetches
\* nothing, succeeds, and leaves every field of the engine (registers, PC,
\* both timers, memory, stack, frame buffer, the waiting state) as it was,
\* so this holds again for the next such cycle, for any number of them.
C1_WaitIdle ==
    /\ (ncycles >= 1 /\ opcode1 # NoOpcode /\ opcode1 \div 4096 = 15
            /\ KK1 = 10)
          => /\ status = "ok"
             /\ cpu.keypad_waiting
             /\ cpu.keypad_register = X1
    /\ (ncycles >= 1 /\ prev.keypad_waiting /\ ~KeyDown(cpu.keypad))
          => /\ status = "ok"
             /\ opcode1 = NoOpcode
             /\ cpu = [prev EXCEPT !.keypad = cpu.keypad,
                                   !.display_changed = FALSE]

\* the third idle cycle in a row, with the delay timer still running and
\* VF the target
C1_Witness ==
    /\ ncycles >= 3
    /\ prev2.keypad_waiting /\ prev.keypad_waiting /\ cpu.keypad_waiting
    /\ ~KeyDown(prev.keypad) /\ ~KeyDown(cpu.keypad)
    /\ cpu.keypad_register = 15 /\ cpu.v_registers[15] = 170
    /\ cpu.delay_timer > 0 /\ cpu.sound_timer > 0

\* C2: a cycle called with a key pressed while the engine waits fetches
\* nothing, writes the lowest pressed key into the target register, clears
\* the waiting state and changes nothing else (PC and timers included);
\* while the engine waits, PC is the address right after the Fx0A, and the
\* cycle after the key was seen fetches the opcode at that address.
C2_KeyResume ==
    /\ (ncycles >= 1 /\ prev.keypad_waiting /\ KeyDown(cpu.keypad))
          => /\ status = "ok"
             /\ opcode1 = NoOpcode
             /\ ~cpu.keypad_waiting
             /\ LET k == cpu.v_registers[prev.keypad_register]
                IN  /\ k \in 0..(KEYPAD_SIZE - 1)
                    /\ cpu.keypad[k]
                    /\ \A j \in 0..(KEYPAD_SIZE - 1) : cpu.keypad[j] => k <= j
                    /\ cpu = [prev EXCEPT
                                 !.keypad = cpu.keypad,
                                 !.display_changed = FALSE,
                                 !.keypad_waiting = FALSE,
                                 !.v_registers[prev.keypad_register] = k]
    /\ (status = "ok" /\ cpu.keypad_waiting)
          => OpAt(cpu, cpu.program_counter - 2) = Op(15, cpu.keypad_register, 0, 10)
    /\ (ncycles >= 2 /\ prev2.keypad_waiting /\ ~prev.keypad_waiting)
          => /\ OpAt(prev2, prev2.program_counter - 2)
                    = Op(15, prev2.keypad_register, 0, 10)
             /\ opcode1 = OpAt(prev, prev2.program_counter)

\* keys 3 and 7 were down: VF took 3, and the next cycle ran the ADD VF, 1
\* that follows the FF0A
C2_Witness ==
    /\ status = "ok" /\ ncycles >= 2
    /\ prev2.keypad_waiting /\ ~prev.keypad_waiting
    /\ prev.keypad[3] /\ prev.keypad[7]
    /\ prev.keypad_register = 15 /\ prev.v_registers[15] = 3
    /\ opcode1 = OpXkk(7, 15, 1) /\ cpu.v_registers[15] = 4

\* the timers after one decrement
Decremented(t) == IF t > 0 THEN t - 1 ELSE 0

\* C5: a cycle that fetches an opcode outside the table succeeds, advances
\* PC by 2, decrements the timers that are running, and leaves the
\* registers, the index register, memory, the stack and the frame buffer
\* unchanged.
C5_UnknownOpcode ==
    (ncycles >= 1 /\ opcode1 # NoOpcode /\ ~InTable(opcode1)) =>
        /\ status = "ok"
        /\ cpu = [prev EXCEPT
                     !.keypad = cpu.keypad,
                     !.display_changed = FALSE,
                     !.program_counter = prev.program_counter + 2,
                     !.delay_timer = Decremented(prev.delay_timer),
                     !.sound_timer = Decremented(prev.sound_timer)]

\* FFFF was run with the timers running, a return address on the stack, a
\* non-zero register and index register and lit pixels
C5_Witness ==
    /\ RanOk(65535)
    /\ prev.delay_timer > 0 /\ prev.sound_timer > 0
    /\ prev.stack_pointer = 1 /\ prev.index_register = 291
    /\ prev.v_registers[1] = 30
    /\ prev.display[30][30] = 1
    /\ cpu.program_counter = prev.program_counter + 2

\* the last cycle fetched a Dxyn
RanDraw == ncycles >= 1 /\ opcode1 # NoOpcode /\ opcode1 \div 4096 = 13

\* bit b (most-significant first) of sprite row r of the last Dxyn, read
\* from memory as it was before the instruction
SpriteBit(r, b) == Bit(prev.memory[prev.index_register + r], 7 - b)

\* the sprite bits of the last Dxyn that fall on pixel (row, col) when the
\* sprite is placed at the Vx, Vy held before the instruction
SpriteHits(row, col) ==
    {<<r, b>> \in (0..(N1 - 1)) \X (0..7) :
        /\ (VyBefore + r) % DISPLAY_HEIGHT = row
        /\ (VxBefore + b) % DISPLAY_WIDTH = col
        /\ SpriteBit(r, b) = 1}

\* C10 (as claimed): Dxyn XORs the sprite into the frame buffer at the
\* (Vx, Vy) held before the instruction, wrapping at the edges, changes no
\* other pixel, and leaves VF = 1 iff a 1 sprite bit fell on a pixel that
\* was 1, for every x and y including 0xF.
C10_DrawClaim ==
    (RanDraw /\ status = "ok") =>
        /\ \A row \in 0..(DISPLAY_HEIGHT - 1), col \in 0..(DISPLAY_WIDTH - 1) :
               cpu.display[row][col] =
                   (prev.display[row][col] + Cardinality(SpriteHits(row, col))) % 2
        /\ cpu.v_registers[15] =
               (IF \E row \in 0..(DISPLAY_HEIGHT - 1),
                      col \in 0..(DISPLAY_WIDTH - 1) :
                       prev.display[row][col] = 1 /\ SpriteHits(row, col) # {}
                THEN 1 ELSE 0)

\* the last two cycles ran the same Dxyn, and the index register, the
\* sprite bytes and the two coordinate registers were the same before both
SameDrawTwice ==
    /\ ncycles >= 2 /\ status = "ok" /\ RanDraw /\ opcode2 = opcode1
    /\ prev2.index_register = prev.index_register
    /\ \A r \in 0..(N1 - 1) :
           prev2.memory[prev2.index_register + r]
               = prev.memory[prev.index_register + r]
    /\ prev2.v_registers[X1] = prev.v_registers[X1]
    /\ prev2.v_registers[Y1] = prev.v_registers[Y1]

\* C11 (as claimed): the second of two identical draws returns every pixel
\* to its value before the first, and leaves VF = 1 iff the first draw left
\* a pixel set under a 1 sprite bit.
C11_DrawTwiceClaim ==
    SameDrawTwice =>
        /\ cpu.display = prev2.display
        /\ cpu.v_registers[15] =
               (IF \E row \in 0..(DISPLAY_HEIGHT - 1),
                      col \in 0..(DISPLAY_WIDTH - 1) :
                       prev.display[row][col] = 1 /\ SpriteHits(row, col) # {}
                THEN 1 ELSE 0)

\* the sprite bits that the claim places on pixel (col, row) of the screen
ScreenHits(row, col) ==
    {<<r, b>> \in (0..(Len(drawn.sprite) - 1)) \X (0..7) :
        /\ Bit(drawn.sprite[r + 1], 7 - b) = 1
        /\ (drawn.x + b) % screen.width = col
        /\ (drawn.y + r) % screen.height = row}

\* C12 (as claimed): draw_sprite XORs each sprite bit b of row r into the
\* pixel at column (x + b) mod width, row (y + r) mod height, so a bit that
\* passes the right edge lands in column 0 of the same row; it returns true
\* iff a 1 bit meets a pixel that was 1.
C12_DrawSpriteClaim ==
    drawn.op = "draw_sprite" =>
        /\ \A row \in 0..(screen.height - 1), col \in 0..(screen.width - 1) :
               screen.buffer[row * screen.width + col] =
                   (drawn.before[row * screen.width + col]
                        + Cardinality(ScreenHits(row, col))) % 2
        /\ drawn.ret =
               (\E row \in 0..(screen.height - 1),
                   col \in 0..(screen.width - 1) :
                    /\ drawn.before[row * screen.width + col] = 1
                    /\ ScreenHits(row, col) # {})

RanStore == ncycles >= 1 /\ opcode1 # NoOpcode /\ opcode1 = STORE(X1)
RanLoad == ncycles >= 1 /\ opcode1 # NoOpcode /\ opcode1 = LOAD(X1)

\* C13: Fx55 copies exactly V0..Vx to memory[I..I+x] and Fx65 copies exactly
\* memory[I..I+x] to V0..Vx (the bound x is included); registers above Vx,
\* memory outside the range and I are unchanged, and Fx55 followed by Fx65
\* with the same x and I leaves V0..Vx as they were.  The range must lie in
\* memory: the instruction is fatal exactly when I + x passes the last address.
C13_StoreLoad ==
    /\ RanStore =>
           /\ (status = "ok") <=> (prev.index_register + X1 < MEMORY_SIZE)
           /\ status = "ok" =>
                  /\ \A a \in 0..(MEMORY_SIZE - 1) :
                         cpu.memory[a] =
                             (IF a \in prev.index_register
                                       ..(prev.index_register + X1)
                              THEN prev.v_registers[a - prev.index_register]
                              ELSE prev.memory[a])
                  /\ cpu.v_registers = prev.v_registers
                  /\ cpu.index_register = prev.index_register
    /\ RanLoad =>
           /\ (status = "ok") <=> (prev.index_register + X1 < MEMORY_SIZE)
           /\ status = "ok" =>
                  /\ \A i \in Reg :
                         cpu.v_registers[i] =
                             (IF i <= X1
                              THEN prev.memory[prev.index_register + i]
                              ELSE prev.v_registers[i])
                  /\ cpu.memory = prev.memory
                  /\ cpu.index_register = prev.index_register
    /\ (RanLoad /\ status = "ok" /\ ncycles >= 2 /\ opcode2 = STORE(X1)) =>
           cpu.v_registers = prev2.v_registers

\* all sixteen registers stored at the last sixteen addresses and loaded back
C13_Witness ==
    /\ RanLoad /\ status = "ok" /\ ncycles >= 2 /\ opcode2 = STORE(15)
    /\ X1 = 15
    /\ prev2.index_register = MEMORY_SIZE - 16
    /\ cpu.memory[MEMORY_SIZE - 1] = cpu.v_registers[15]
    /\ cpu.v_registers[15] # 0
    /\ prev2.memory[MEMORY_SIZE - 1] = 0

\* the last call was a cycle that fetched and completed an instruction
Executed == ncycles >= 1 /\ opcode1 # NoOpcode /\ status = "ok"
SetsDelay == opcode1 \div 4096 = 15 /\ KK1 = 21
SetsSound == opcode1 \div 4096 = 15 /\ KK1 = 24

\* C14: a cycle that executes an instruction other than Fx15 takes 1 from
\* the delay timer if it was above 0 and leaves it 0 otherwise, and likewise
\* the sound timer and Fx18; no call ever raises a timer except by Fx15 /
\* Fx18, so a timer at 0 never wraps to 255.
C14_Timers ==
    /\ cpu.delay_timer \in Byte /\ cpu.sound_timer \in Byte
    /\ (Executed /\ ~SetsDelay) =>
           cpu.delay_timer = Decremented(prev.delay_timer)
    /\ (Executed /\ ~SetsSound) =>
           cpu.sound_timer = Decremented(prev.sound_timer)
    /\ cpu.delay_timer > prev.delay_timer => (Executed /\ SetsDelay)
    /\ cpu.sound_timer > prev.sound_timer => (Executed /\ SetsSound)

\* the delay timer went 1, 0, 0 over two executed instructions while the
\* sound timer was still counting down from 255
C14_Witness ==
    /\ Executed /\ ncycles >= 2 /\ opcode2 # NoOpcode
    /\ ~SetsDelay /\ ~SetsSound
    /\ prev2.delay_timer = 1 /\ prev.delay_timer = 0 /\ cpu.delay_timer = 0
    /\ prev.sound_timer > 250 /\ cpu.sound_timer = prev.sound_timer - 1

\* C15: the beep flag of the output returned by every cycle call, in the
\* Running and in the waiting branch, is true iff the sound timer is above 0
\* when the call ends (so it is false for the cycle that takes it from 1 to 0).
C15_Beep ==
    (ncycles >= 1 /\ status = "ok") =>
        /\ output # NoOutput
        /\ output.beep = (cpu.sound_timer > 0)
        /\ (opcode1 # NoOpcode /\ ~SetsSound /\ prev.sound_timer = 1) =>
               ~output.beep

\* a cycle spent waiting for a key that returns beep = true with the delay
\* timer already at 0
C15_Witness ==
    /\ ncycles >= 1 /\ status = "ok" /\ opcode1 = NoOpcode
    /\ prev.keypad_waiting /\ cpu.keypad_waiting
    /\ output.beep /\ cpu.sound_timer > 0 /\ cpu.delay_timer = 0

\* the last call was load_program
JustLoaded == calls # <<>> /\ calls[Len(calls)] = "load_program"

\* C16: load_program copies a program of at most 4096 - 0x200 = 3584 bytes
\* verbatim to memory[0x200..], leaving the addresses below 0x200 and above
\* the program as they were; a longer program is a fatal error, and nothing
\* is ever written past the end of memory.
C16_LoadProgram ==
    JustLoaded =>
        /\ (status = "ok") <=> (Len(rom) <= MEMORY_SIZE - PROGRAM_START)
        /\ DOMAIN cpu.memory = 0..(MEMORY_SIZE - 1)
        /\ status = "ok" =>
               \A a \in 0..(MEMORY_SIZE - 1) :
                   cpu.memory[a] =
                       (IF a >= PROGRAM_START /\ a < PROGRAM_START + Len(rom)
                        THEN rom[a - PROGRAM_START + 1]
                        ELSE prev.memory[a])
        /\ \A a \in 0..(PROGRAM_START - 1) : cpu.memory[a] = new.memory[a]
        /\ [cpu EXCEPT !.memory = prev.memory] = prev

\* a program of exactly 3584 bytes is loaded up to the last address
C16_Witness ==
    /\ JustLoaded /\ status = "ok"
    /\ Len(rom) = MEMORY_SIZE - PROGRAM_START
    /\ cpu.memory[MEMORY_SIZE - 1] = rom[Len(rom)]
    /\ cpu.memory[MEMORY_SIZE - 1] # 0
    /\ cpu.memory[PROGRAM_START] = rom[1]

Blank == [y \in 0..(DISPLAY_HEIGHT - 1) |-> [x \in 0..(DISPLAY_WIDTH - 1) |-> 0]]

\* the program was loaded into the engine as constructed, before any cycle
LoadedFirst == calls # <<>> /\ calls[1] = "load_program"

\* C17: a fresh engine with the bytes 00 E0 60 05 70 03 00 00 loaded has,
\* after three cycles with any keypads, V0 = 8, PC = 0x206, VF = 0 and a
\* blank frame buffer; the fourth cycle fetches the unknown opcode 0x0000
\* and changes nothing but PC, which becomes 0x208 (and the stored keypad).
C17_Scenario ==
    /\ rom = <<0, 224, 96, 5, 112, 3, 0, 0>>
    /\ (LoadedFirst /\ ncycles = 3) =>
           /\ status = "ok"
           /\ cpu.v_registers[0] = 8
           /\ cpu.program_counter = PROGRAM_START + 6
           /\ cpu.v_registers[15] = 0
           /\ cpu.display = Blank
    /\ (LoadedFirst /\ ncycles = 4) =>
           /\ status = "ok"
           /\ opcode1 = 0
           /\ cpu = [prev EXCEPT !.program_counter = PROGRAM_START + 8,
                                 !.keypad = cpu.keypad]

\* the fourth cycle has run, with all keys down after none
C17_Witness ==
    /\ LoadedFirst /\ ncycles = 4 /\ status = "ok" /\ opcode1 = 0
    /\ cpu.program_counter = PROGRAM_START + 8
    /\ cpu.v_registers[0] = 8
    /\ cpu.keypad = AllKeys /\ ~KeyDown(prev.keypad)

\* C18 (as claimed): in every state reached by cycle calls on a loaded
\* program, PC and PC + 1 are memory addresses, i.e. PC <= 4094.
C18_PcInBounds ==
    (loaded /\ status = "ok") =>
        cpu.program_counter + 1 <= MEMORY_SIZE - 1

Waiting == status = "ok" /\ cpu.keypad_waiting
\* the last call was a cycle made after the n-th one, with a key pressed
KeySuppliedAfter(n) == ncycles > n /\ KeyDown(cpu.keypad)

\* the last call made on the engine was cycle
LastCycle == calls # <<>> /\ calls[Len(calls)] = "cycle"

\* the engine leaves the waiting state only in a call that has a key pressed
LeavesWaitingByKey ==
    (prev.keypad_waiting /\ ~cpu.keypad_waiting)
        => (LastCycle /\ status = "ok" /\ opcode1 = NoOpcode
               /\ KeyDown(cpu.keypad))

\* the engine enters the waiting state only by executing Fx0A
EntersWaitingByFx0A ==
    (~prev.keypad_waiting /\ cpu.keypad_waiting)
        => (Executed /\ opcode1 = WAITKEY(X1))

\* a cycle on a Running engine fetches (it can only fail to when PC is past
\* the last opcode address, which is fatal)
RunningFetches ==
    (LastCycle /\ ~prev.keypad_waiting
        /\ prev.program_counter + 1 < MEMORY_SIZE) => opcode1 # NoOpcode

\* C19: if the engine waits and the caller later makes a cycle call with a
\* key pressed, the engine eventually is Running again, and a Running engine
\* fetches on its next cycle; it leaves the waiting state for no other
\* reason and enters it only by executing Fx0A.
C19_WaitLiveness ==
    /\ \A n \in 0..MaxCycles :
           [](( Waiting /\ ncycles = n) =>
                 (<>KeySuppliedAfter(n) => <>(~cpu.keypad_waiting)))
    /\ [](LeavesWaitingByKey /\ EntersWaitingByFx0A /\ RunningFetches)

\* the engine waited through a call with no key, resumed on the call that
\* had one, and the cycle after that fetched the opcode after the Fx0A
C19_Witness ==
    /\ ncycles >= 3 /\ status = "ok"
    /\ prev2.keypad_waiting /\ ~KeyDown(prev2.keypad)
    /\ ~prev.keypad_waiting /\ KeyDown(prev.keypad)
    /\ opcode2 = NoOpcode /\ opcode1 # NoOpcode
    /\ opcode1 = OpAt(prev, prev.program_counter)

RanSkipKey ==
    ncycles >= 1 /\ opcode1 # NoOpcode
        /\ (opcode1 = SKP(X1) \/ opcode1 = SKNP(X1))

\* C20 (as claimed): for every Vx in 0..255, Ex9E and ExA1 are not fatal and
\* advance PC by 2 or 4; for Vx in 0..15 the advance is 4 iff key Vx is
\* pressed (Ex9E) or not pressed (ExA1) in the keypad of the same call.
C20_SkipKeyClaim ==
    RanSkipKey =>
        /\ status = "ok"
        /\ cpu.program_counter \in
               {prev.program_counter + 2, prev.program_counter + 4}
        /\ VxBefore < KEYPAD_SIZE =>
               ((cpu.program_counter = prev.program_counter + 4)
                    <=> (cpu.keypad[VxBefore] <=> (opcode1 = SKP(X1))))

RanBcd == ncycles >= 1 /\ opcode1 # NoOpcode /\ opcode1 = BCD(X1)

\* C21: Fx33 writes the digits h, t, o of Vx, each in 0..9 and with
\* 100 h + 10 t + o = Vx, to memory[I], memory[I + 1], memory[I + 2], and
\* changes no register, no other memory byte and not I.  The three bytes
\* must lie in memory: the instruction is fatal exactly when I + 2 passes
\* the last address.
C21_Bcd ==
    RanBcd =>
        /\ (status = "ok") <=> (prev.index_register + 2 < MEMORY_SIZE)
        /\ status = "ok" =>
               LET i == prev.index_register
                   h == cpu.memory[i]
                   t == cpu.memory[i + 1]
                   o == cpu.memory[i + 2]
               IN  /\ h \in 0..9 /\ t \in 0..9 /\ o \in 0..9
                   /\ 100 * h + 10 * t + o = VxBefore
                   /\ \A a \in 0..(MEMORY_SIZE - 1) :
                          a \notin i..(i + 2) => cpu.memory[a] = prev.memory[a]
                   /\ cpu.v_registers = prev.v_registers
                   /\ cpu.index_register = i

\* VF = 255 stored as 2, 5, 5 in the last three bytes of memory
C21_Witness ==
    /\ RanBcd /\ status = "ok" /\ X1 = 15 /\ VxBefore = 255
    /\ prev.index_register = MEMORY_SIZE - 3
    /\ cpu.memory[MEMORY_SIZE - 3] = 2
    /\ cpu.memory[MEMORY_SIZE - 2] = 5
    /\ cpu.memory[MEMORY_SIZE - 1] = 5

\* the last cycle executed Clear or Draw
RanClearOrDraw ==
    Executed /\ (opcode1 = CLS \/ opcode1 \div 4096 = 13)

\* C22: the display-changed flag of the output of a cycle is true iff that
\* cycle executed 00E0 or Dxyn (n = 0 included); it is false for every
\* other instruction and for every cycle spent waiting for a key, so it is
\* never carried over from the cycle before.
C22_DisplayChanged ==
    (ncycles >= 1 /\ status = "ok") =>
        /\ output # NoOutput
        /\ output.display_changed = RanClearOrDraw
        /\ cpu.display_changed = output.display_changed
        /\ opcode1 = NoOpcode => ~output.display_changed

\* a Draw of no rows reported a change, and the cycle after it, spent on
\* another instruction, reported none
C22_Witness ==
    /\ ncycles >= 2 /\ status = "ok"
    /\ opcode2 = DRW(0, 1, 0) /\ prev.display_changed
    /\ prev.display = prev2.display
    /\ opcode1 # NoOpcode /\ ~RanClearOrDraw
    /\ ~output.display_changed

\* the register operand of the opcode fetched by the call before the last
X2 == (opcode2 \div 256) % 16

\* C23: the timers are decremented after the instruction of the same cycle,
\* so a cycle that executes Fx15 (Fx18) with Vx = k ends with the delay
\* (sound) timer at max(k - 1, 0); Fx18 with Vx = 1 therefore returns
\* beep = false, and Fx07 in the cycle right after Fx15 with Vx = k >= 1
\* reads k - 1.
C23_TimerSet ==
    /\ (ncycles >= 1 /\ opcode1 # NoOpcode /\ opcode1 = LDDT(X1)) =>
           /\ status = "ok"
           /\ cpu.delay_timer = Decremented(VxBefore)
    /\ (ncycles >= 1 /\ opcode1 # NoOpcode /\ opcode1 = LDST(X1)) =>
           /\ status = "ok"
           /\ cpu.sound_timer = Decremented(VxBefore)
           /\ VxBefore = 1 => ~output.beep
           /\ output.beep = (VxBefore >= 2)
    /\ (ncycles >= 2 /\ opcode2 # NoOpcode /\ opcode2 = LDDT(X2)
            /\ opcode1 # NoOpcode /\ opcode1 = RDDT(X1)
            /\ prev2.v_registers[X2] >= 1) =>
           /\ status = "ok"
           /\ cpu.v_registers[X1] = prev2.v_registers[X2] - 1

\* Fx15 with VF = 255 and then Fx07, which reads 254
C23_Witness ==
    /\ ncycles >= 2 /\ status = "ok"
    /\ opcode2 = LDDT(15) /\ prev2.v_registers[15] = 255
    /\ opcode1 = RDDT(0) /\ cpu.v_registers[0] = 254
    /\ cpu.delay_timer = 253

====
